---- MODULE Spec2Model ----
(***************************************************************************)
(* Game Arena: the Tic-Tac-Toe state held by App (App.js) and the Snake &  *)
(* Ladder state held by SnakeLadderGame (SnakeLadderGame.js), as state     *)
(* machines driven by user events and timer callbacks.                     *)
(*                                                                         *)
(* React specifics that the model keeps:                                   *)
(*  - a handler reads the state of the render that created it.  Events    *)
(*    (click, key press) are discrete and React re-renders before the next *)
(*    one is dispatched, so an event handler reads the current state.  A   *)
(*    setTimeout callback keeps the closure of the render that scheduled   *)
(*    it: what it read from that render is stored with the timer.         *)
(*  - functional updates (setState(prev => ...)) read the current state.   *)
(*  - timers are never cancelled; timers of equal delay fire in FIFO order.*)
(***************************************************************************)
EXTENDS Integers, Sequences, FiniteSets, TLC

VARIABLES
    \* ---- SnakeLadderGame.js: state = {positions, turn, rolling, dice, winner}
    positions,      \* [0..1 -> 1..100]
    turn,           \* 0 | 1
    rolling,        \* BOOLEAN
    dice,           \* NoValue | 1..6
    winner,         \* NoValue | 0 | 1
    rollTimers,     \* number of pending 480 ms dice callbacks
    flipTimers,     \* number of pending 750 ms turn-flip callbacks
    lastRoll,       \* history: [who: the mover of the last resolved roll, from: the cell it
                    \* moved from, until the next roll starts]
    \* ---- App.js: Tic-Tac-Toe state
    appScreen,      \* "menu" | "ttt" | "snl"
    gameMode,       \* null | "ai" | "local"
    board,          \* [0..8 -> {null, "X", "O"}]
    xIsNext,        \* BOOLEAN
    status,         \* "" | "X wins!" | "O wins!" | "Draw!"
    animWinLine,    \* <<>> (null) or a line <<a, b, c>>
    aiTimers,       \* FIFO of pending 500 ms opponent callbacks, each the closure it keeps
    early,          \* count of the user events dispatched while such a callback waited
    \* ---- inputs of the pure-function specifications
    cwBoard,        \* the board handed to calculateWinner
    cwResult,       \* its result, or NotEvaluated
    rpPos,          \* the position handed to resolvePortals
    rpOnce,         \* resolvePortals(rpPos), or NoValue
    rpTwice,        \* resolvePortals(rpOnce), or NoValue
    \* ---- the loop of resolvePortals, run over any portal table
    lpTable,        \* the portal table: a function from some cells to cells
    lpPos,          \* pos
    lpPrev,         \* prev (NoValue: not assigned yet)
    lpSeen,         \* history: the values pos had when the loop body was entered
    lpPc            \* "body" | "test" | "done"

slVars  == <<positions, turn, rolling, dice, winner, rollTimers, flipTimers, lastRoll>>
tttVars == <<appScreen, gameMode, board, xIsNext, status, animWinLine, aiTimers, early>>
rpVars  == <<rpPos, rpOnce, rpTwice>>
lpVars  == <<lpTable, lpPos, lpPrev, lpSeen, lpPc>>
cwVars  == <<cwBoard, cwResult, rpVars, lpVars>>
vars    == <<slVars, tttVars, cwVars>>

\* JavaScript null of a number-valued field (dice: null, winner: null).
NoValue == -1
\* JavaScript null of a string-valued field (board cell, gameMode).
null == "null"

----------------------------------------------------------------------------
(* Bounds of the model *)

\* Pending dice callbacks: a roll that would schedule one more is not taken.
MaxRollTimers == 2
\* Pending turn-flip callbacks: a dice callback is not taken while this many wait.
MaxFlipTimers == 2
\* User events dispatched during the 500 ms an opponent callback waits, over a run:
\* once this many were, the user lets the opponent move first.
MaxEarlyEvents == 2
\* Cells of the boards the loop of resolvePortals is run on with arbitrary tables.
MaxCell == 3

----------------------------------------------------------------------------
(* Snake & Ladder *)

WIN_CELL == 100

BOARD_PORTALS ==
    (2 :> 23) @@ (6 :> 45) @@ (20 :> 59) @@ (52 :> 72) @@ (57 :> 96) @@ (71 :> 92) @@
    (43 :> 17) @@ (50 :> 5) @@ (56 :> 8) @@ (73 :> 15) @@ (84 :> 58) @@ (87 :> 49) @@
    (98 :> 40)

\* JavaScript truthiness of a player index or null: null and 0 are falsy.
Truthy(v) == v # NoValue /\ v # 0

\* No roll resolved yet (who), no roll on display (from).
NoRoll == [who |-> NoValue, from |-> 0]

initialState ==
    [positions |-> [p \in 0..1 |-> 1], turn |-> 0, rolling |-> FALSE,
     dice |-> NoValue, winner |-> NoValue]

\* (mutant of resolvePortals: snakes and ladders are not applied)
resolvePortalsNone(pos) == pos

\* (mutant of resolvePortals: only ladders are climbed, snakes are not applied)
resolvePortalsUp(pos) ==
    IF pos \in DOMAIN BOARD_PORTALS /\ BOARD_PORTALS[pos] > pos THEN BOARD_PORTALS[pos] ELSE pos

\* do { prev = pos; pos = BOARD_PORTALS[pos] || pos } while (prev !== pos)
RECURSIVE resolvePortals(_)
resolvePortals(pos) ==
    LET next == IF pos \in DOMAIN BOARD_PORTALS THEN BOARD_PORTALS[pos] ELSE pos
    IN  IF next = pos THEN pos ELSE resolvePortals(next)

\* (mutant of MovedTo: an overshooting roll is clamped to the last cell)
MovedToClamped(p, d) == IF p + d <= WIN_CELL THEN p + d ELSE WIN_CELL

\* npos[i] + dice <= WIN_CELL ? npos[i] + dice : npos[i]  (can't overshoot)
MovedTo(p, d) == IF p + d <= WIN_CELL THEN p + d ELSE p

\* if (state.rolling || state.winner) return;
RollGuard == ~(rolling \/ Truthy(winner))

\* handleRollDice up to setTimeout: rolling := true, dice := null, the 480 ms timer set.
handleRollDice ==
    IF RollGuard
    THEN /\ rollTimers < MaxRollTimers
         /\ rolling' = TRUE
         /\ dice' = NoValue
         /\ rollTimers' = rollTimers + 1
         /\ lastRoll' = [lastRoll EXCEPT !.from = 0]
         /\ UNCHANGED <<positions, turn, winner, flipTimers>>
    ELSE UNCHANGED slVars

\* The button's onClick.  The button is disabled under the very condition
\* handleRollDice returns on, so a click on the enabled button is an accepted call.
ClickRollDice ==
    /\ handleRollDice
    /\ UNCHANGED <<tttVars, cwVars>>

\* The button's onKeyDown: " " or "Enter" while !rolling and winner == null.
handleKeyPress ==
    /\ IF ~rolling /\ winner = NoValue THEN handleRollDice ELSE UNCHANGED slVars
    /\ UNCHANGED <<tttVars, cwVars>>

\* (mutant of RollTimeout: reaching the last cell credits the other player)
RollTimeoutCreditsOther(d) ==
    /\ rollTimers > 0
    /\ flipTimers < MaxFlipTimers
    /\ LET i == turn
           newPos == resolvePortals(MovedTo(positions[i], d))
       IN  /\ positions' = [positions EXCEPT ![i] = newPos]
           /\ rolling' = FALSE
           /\ dice' = d
           /\ winner' = IF newPos = WIN_CELL THEN 1 - i ELSE NoValue
           /\ lastRoll' = [who |-> i, from |-> positions[i]]
    /\ rollTimers' = rollTimers - 1
    /\ flipTimers' = flipTimers + 1
    /\ UNCHANGED turn
    /\ UNCHANGED <<tttVars, cwVars>>

\* The 480 ms callback: draws the dice, moves prev.turn, sets winner, schedules the flip.
RollTimeout(d) ==
    /\ rollTimers > 0
    /\ flipTimers < MaxFlipTimers
    /\ LET i == turn
           newPos == resolvePortals(MovedTo(positions[i], d))
       IN  /\ positions' = [positions EXCEPT ![i] = newPos]
           /\ rolling' = FALSE
           /\ dice' = d
           /\ winner' = IF newPos = WIN_CELL THEN i ELSE NoValue
           /\ lastRoll' = [who |-> i, from |-> positions[i]]
    /\ rollTimers' = rollTimers - 1
    /\ flipTimers' = flipTimers + 1
    /\ UNCHANGED turn
    /\ UNCHANGED <<tttVars, cwVars>>

\* (mutant of TurnTimeout: the turn flips whether or not there is a winner)
TurnTimeoutAlways ==
    /\ flipTimers > 0
    /\ flipTimers' = flipTimers - 1
    /\ turn' = 1 - turn
    /\ UNCHANGED <<positions, rolling, dice, winner, rollTimers, lastRoll>>
    /\ UNCHANGED <<tttVars, cwVars>>

\* The 750 ms callback: s.winner !== null ? s : {...s, turn: flipped}
TurnTimeout ==
    /\ flipTimers > 0
    /\ flipTimers' = flipTimers - 1
    /\ turn' = IF winner # NoValue THEN turn ELSE 1 - turn
    /\ UNCHANGED <<positions, rolling, dice, winner, rollTimers, lastRoll>>
    /\ UNCHANGED <<tttVars, cwVars>>

\* (mutant of newGame: the turn is left with the winner)
newGameKeepsTurn ==
    /\ winner # NoValue
    /\ positions' = initialState.positions
    /\ rolling' = initialState.rolling
    /\ dice' = initialState.dice
    /\ winner' = initialState.winner
    /\ lastRoll' = NoRoll
    /\ UNCHANGED <<turn, rollTimers, flipTimers>>
    /\ UNCHANGED <<tttVars, cwVars>>

\* newGame: setState(initialState); the Restart button is rendered when winner !== null.
\* Pending timers stay.
newGame ==
    /\ winner # NoValue
    /\ positions' = initialState.positions
    /\ turn' = initialState.turn
    /\ rolling' = initialState.rolling
    /\ dice' = initialState.dice
    /\ winner' = initialState.winner
    /\ lastRoll' = NoRoll
    /\ UNCHANGED <<rollTimers, flipTimers>>
    /\ UNCHANGED <<tttVars, cwVars>>

InitSnl ==
    /\ positions = initialState.positions
    /\ turn = initialState.turn
    /\ rolling = initialState.rolling
    /\ dice = initialState.dice
    /\ winner = initialState.winner
    /\ rollTimers = 0
    /\ flipTimers = 0
    /\ lastRoll = NoRoll

\* Leaving the "snl" screen unmounts the component and coming back mounts a new one:
\* the new instance starts from initialState and callbacks of the old one update nothing.
RemountSnl ==
    /\ positions' = initialState.positions
    /\ turn' = initialState.turn
    /\ rolling' = initialState.rolling
    /\ dice' = initialState.dice
    /\ winner' = initialState.winner
    /\ rollTimers' = 0
    /\ flipTimers' = 0
    /\ lastRoll' = NoRoll
    /\ UNCHANGED <<tttVars, cwVars>>

----------------------------------------------------------------------------
(* Tic-Tac-Toe *)

Cells == 0..8
Marks == {"X", "O"}
emptyBoard == [i \in Cells |-> null]

lines ==
    << <<0, 1, 2>>, <<3, 4, 5>>, <<6, 7, 8>>,
       <<0, 3, 6>>, <<1, 4, 7>>, <<2, 5, 8>>,
       <<0, 4, 8>>, <<2, 4, 6>> >>

\* calculateWinner returning null
NoResult == [winner |-> null, line |-> <<>>]

\* b[a] && b[a] === b[b2] && b[a] === b[c]
LineHit(b, line) ==
    /\ b[line[1]] # null
    /\ b[line[1]] = b[line[2]]
    /\ b[line[1]] = b[line[3]]

\* for (let line of lines) ... from the k-th line on; then b.every(Boolean); then null
RECURSIVE ScanLines(_, _)
ScanLines(b, k) ==
    IF k > Len(lines)
    THEN IF \A i \in Cells : b[i] # null
         THEN [winner |-> "draw", line |-> <<>>]
         ELSE NoResult
    ELSE IF LineHit(b, lines[k])
         THEN [winner |-> b[lines[k][1]], line |-> lines[k]]
         ELSE ScanLines(b, k + 1)

\* (mutant of calculateWinner: the full board is tested before the lines)
calculateWinnerDrawFirst(b) ==
    IF \A i \in Cells : b[i] # null
    THEN [winner |-> "draw", line |-> <<>>]
    ELSE ScanLines(b, 1)

\* (mutant of calculateWinner: the lines are tested from the last to the first)
RECURSIVE ScanLinesBack(_, _)
ScanLinesBack(b, k) ==
    IF k < 1
    THEN IF \A i \in Cells : b[i] # null
         THEN [winner |-> "draw", line |-> <<>>]
         ELSE NoResult
    ELSE IF LineHit(b, lines[k])
         THEN [winner |-> b[lines[k][1]], line |-> lines[k]]
         ELSE ScanLinesBack(b, k - 1)

calculateWinnerLastMatch(b) == ScanLinesBack(b, Len(lines))

calculateWinner(b) == ScanLines(b, 1)

\* `${result.winner} wins!`
WinsText(m) == IF m = "X" THEN "X wins!" ELSE "O wins!"

\* What a render's handlers read from it.
Closure(b, x, s, m) == [board |-> b, xIsNext |-> x, status |-> s, gameMode |-> m]

\* (mutant of handleClick: the turn is flipped after a terminal move too)
handleClickAlwaysFlips(cl, idx) ==
    IF cl.board[idx] # null \/ cl.status # ""
    THEN UNCHANGED <<board, xIsNext, status, animWinLine>>
    ELSE LET newBoard == [cl.board EXCEPT ![idx] = IF cl.xIsNext THEN "X" ELSE "O"]
             result == calculateWinner(newBoard)
         IN  /\ board' = newBoard
             /\ xIsNext' = ~cl.xIsNext
             /\ IF result # NoResult
                THEN IF result.winner = "draw"
                     THEN /\ status' = "Draw!"
                          /\ UNCHANGED animWinLine
                     ELSE /\ status' = WinsText(result.winner)
                          /\ animWinLine' = result.line
                ELSE UNCHANGED <<status, animWinLine>>

\* handleClick(idx) of the render cl: the guard and the new marks are computed from the
\* board, xIsNext and status of that render; the setters write the current state.
handleClick(cl, idx) ==
    IF cl.board[idx] # null \/ cl.status # ""
    THEN UNCHANGED <<board, xIsNext, status, animWinLine>>
    ELSE LET newBoard == [cl.board EXCEPT ![idx] = IF cl.xIsNext THEN "X" ELSE "O"]
             result == calculateWinner(newBoard)
         IN  /\ board' = newBoard
             /\ IF result # NoResult
                THEN /\ IF result.winner = "draw"
                        THEN /\ status' = "Draw!"
                             /\ UNCHANGED animWinLine
                        ELSE /\ status' = WinsText(result.winner)
                             /\ animWinLine' = result.line
                     /\ UNCHANGED xIsNext
                ELSE /\ xIsNext' = ~cl.xIsNext
                     /\ UNCHANGED <<status, animWinLine>>

\* board.map((v, i) => (v ? null : i)).filter((v) => v !== null)
EmptyCells(b) == {i \in Cells : b[i] = null}

\* The effect on [board, xIsNext, status, gameMode] and makeAIMove up to setTimeout, run
\* after the render of the new state: the opponent's timer is set with that render's
\* closure.  `waiting` are the timers still pending.
WantsAiMove(m, s, x, b) == m = "ai" /\ s = "" /\ ~x /\ EmptyCells(b) # {}

makeAIMove(waiting) ==
    IF WantsAiMove(gameMode', status', xIsNext', board')
    THEN aiTimers' = Append(waiting, Closure(board', xIsNext', status', gameMode'))
    ELSE aiTimers' = waiting

\* A user event is dispatched: counted when an opponent callback is waiting.
UserEvent ==
    IF aiTimers = <<>>
    THEN UNCHANGED early
    ELSE early < MaxEarlyEvents /\ early' = early + 1

\* A square's onClick (rendered on the "ttt" screen once a mode is chosen).  The square
\* is disabled under the very condition handleClick returns on.
ClickSquare(idx) ==
    /\ appScreen = "ttt"
    /\ gameMode # null
    /\ handleClick(Closure(board, xIsNext, status, gameMode), idx)
    /\ UNCHANGED <<appScreen, gameMode>>
    /\ IF board' # board
       THEN UserEvent /\ makeAIMove(aiTimers)
       ELSE UNCHANGED <<aiTimers, early>>
    /\ UNCHANGED <<slVars, cwVars>>

\* The 500 ms callback of makeAIMove: picks among the cells that were empty in the render
\* that scheduled it and calls that render's handleClick.
AiTimeout(choice) ==
    /\ aiTimers # <<>>
    /\ LET cl == Head(aiTimers)
       IN  /\ choice \in EmptyCells(cl.board)
           /\ handleClick(cl, choice)
    /\ UNCHANGED <<appScreen, gameMode, early>>
    /\ makeAIMove(Tail(aiTimers))
    /\ UNCHANGED <<slVars, cwVars>>

\* startNewGame(mode), from the mode menu
startNewGame(mode) ==
    /\ appScreen = "ttt"
    /\ gameMode = null
    /\ UserEvent
    /\ gameMode' = mode
    /\ board' = emptyBoard
    /\ xIsNext' = TRUE
    /\ status' = ""
    /\ animWinLine' = <<>>
    /\ appScreen' = "ttt"
    /\ makeAIMove(aiTimers)
    /\ UNCHANGED <<slVars, cwVars>>

\* (mutant of restartGame: the mark to move is left as the finished game left it)
restartGameKeepsMark ==
    /\ appScreen = "ttt"
    /\ gameMode # null
    /\ status # "" \/ EmptyCells(board) = {}
    /\ UserEvent
    /\ board' = emptyBoard
    /\ status' = ""
    /\ animWinLine' = <<>>
    /\ UNCHANGED <<appScreen, gameMode, xIsNext>>
    /\ makeAIMove(aiTimers)
    /\ UNCHANGED <<slVars, cwVars>>

\* restartGame; the button is rendered when status || board.every(Boolean)
restartGame ==
    /\ appScreen = "ttt"
    /\ gameMode # null
    /\ status # "" \/ EmptyCells(board) = {}
    /\ UserEvent
    /\ board' = emptyBoard
    /\ xIsNext' = TRUE
    /\ status' = ""
    /\ animWinLine' = <<>>
    /\ UNCHANGED <<appScreen, gameMode>>
    /\ makeAIMove(aiTimers)
    /\ UNCHANGED <<slVars, cwVars>>

\* "Back to Mode Select": setGameMode(null)
BackToModeSelect ==
    /\ appScreen = "ttt"
    /\ gameMode # null
    /\ UserEvent
    /\ gameMode' = null
    /\ UNCHANGED <<board, xIsNext, status, animWinLine>>
    /\ makeAIMove(aiTimers)
    /\ UNCHANGED appScreen
    /\ UNCHANGED <<slVars, cwVars>>

\* "Back to Main Menu" of the mode menu: setAppScreen("menu")
BackToMainMenu ==
    /\ appScreen = "ttt"
    /\ gameMode = null
    /\ UserEvent
    /\ appScreen' = "menu"
    /\ UNCHANGED <<gameMode, board, xIsNext, status, animWinLine, aiTimers>>
    /\ UNCHANGED <<slVars, cwVars>>

\* "Play Tic Tac Toe" of the main menu: setAppScreen("ttt")
PlayTicTacToe ==
    /\ appScreen = "menu"
    /\ UserEvent
    /\ appScreen' = "ttt"
    /\ UNCHANGED <<gameMode, board, xIsNext, status, animWinLine, aiTimers>>
    /\ UNCHANGED <<slVars, cwVars>>

InitTtt ==
    /\ gameMode = null
    /\ board = emptyBoard
    /\ xIsNext = TRUE
    /\ status = ""
    /\ animWinLine = <<>>
    /\ aiTimers = <<>>
    /\ early = 0

----------------------------------------------------------------------------
(* calculateWinner as a function of any board *)

NotEvaluated == [winner |-> "?", line |-> <<>>]

Boards == [Cells -> Marks \cup {null}]

Evaluate ==
    /\ cwResult = NotEvaluated
    /\ cwResult' = calculateWinner(cwBoard)
    /\ UNCHANGED cwBoard
    /\ UNCHANGED <<rpVars, lpVars>>
    /\ UNCHANGED <<slVars, tttVars>>

----------------------------------------------------------------------------
(* resolvePortals as a function of any position of the board *)

ResolveOnce ==
    /\ rpOnce = NoValue
    /\ rpOnce' = resolvePortals(rpPos)
    /\ UNCHANGED <<rpPos, rpTwice>>
    /\ UNCHANGED <<cwBoard, cwResult, lpVars>>
    /\ UNCHANGED <<slVars, tttVars>>

ResolveTwice ==
    /\ rpOnce # NoValue
    /\ rpTwice = NoValue
    /\ rpTwice' = resolvePortals(rpOnce)
    /\ UNCHANGED <<rpPos, rpOnce>>
    /\ UNCHANGED <<cwBoard, cwResult, lpVars>>
    /\ UNCHANGED <<slVars, tttVars>>

InitRp ==
    /\ rpPos = 1
    /\ rpOnce = NoValue
    /\ rpTwice = NoValue

----------------------------------------------------------------------------
(* The loop of resolvePortals, statement by statement, over any portal table *)

LoopCells == 1..MaxCell

\* Every table over the cells: any subset of them mapped to any of them.
PortalTables == UNION {[D -> LoopCells] : D \in SUBSET LoopCells}

\* do { prev = pos; pos = BOARD_PORTALS[pos] || pos;
LoopBody ==
    /\ lpPc = "body"
    /\ lpPrev' = lpPos
    /\ lpPos' = IF lpPos \in DOMAIN lpTable THEN lpTable[lpPos] ELSE lpPos
    /\ lpSeen' = lpSeen \cup {lpPos}
    /\ lpPc' = "test"
    /\ UNCHANGED lpTable
    /\ UNCHANGED <<cwBoard, cwResult, rpVars>>
    /\ UNCHANGED <<slVars, tttVars>>

\* } while (prev !== pos); return pos;
LoopTest ==
    /\ lpPc = "test"
    /\ lpPc' = IF lpPrev # lpPos THEN "body" ELSE "done"
    /\ UNCHANGED <<lpTable, lpPos, lpPrev, lpSeen>>
    /\ UNCHANGED <<cwBoard, cwResult, rpVars>>
    /\ UNCHANGED <<slVars, tttVars>>

\* No call of the loop in progress.
InitLp ==
    /\ lpTable = <<>>
    /\ lpPos = 1
    /\ lpPrev = NoValue
    /\ lpSeen = {}
    /\ lpPc = "done"

InitCw ==
    /\ cwBoard = emptyBoard
    /\ cwResult = NotEvaluated
    /\ InitRp
    /\ InitLp

----------------------------------------------------------------------------
(* Specifications *)

\* Snake & Ladder, on the "snl" screen.
InitSnake ==
    /\ InitSnl
    /\ appScreen = "snl"
    /\ InitTtt
    /\ InitCw

NextSnake ==
    \/ ClickRollDice
    \/ handleKeyPress
    \/ \E d \in 1..6 : RollTimeout(d)
    \/ TurnTimeout
    \/ newGame
    \/ RemountSnl

SpecSnake == InitSnake /\ [][NextSnake]_vars

\* Tic-Tac-Toe.
InitTicTacToe ==
    /\ InitSnl
    /\ appScreen = "menu"
    /\ InitTtt
    /\ InitCw

NextTicTacToe ==
    \/ \E idx \in Cells : ClickSquare(idx)
    \/ \E choice \in Cells : AiTimeout(choice)
    \/ \E mode \in {"ai", "local"} : startNewGame(mode)
    \/ restartGame
    \/ BackToModeSelect
    \/ BackToMainMenu
    \/ PlayTicTacToe

SpecTicTacToe == InitTicTacToe /\ [][NextTicTacToe]_vars

\* calculateWinner on every board over {null, X, O}.
InitBoards ==
    /\ InitSnl
    /\ appScreen = "menu"
    /\ InitTtt
    /\ cwBoard \in Boards
    /\ cwResult = NotEvaluated
    /\ InitRp
    /\ InitLp

NextBoards == Evaluate

SpecBoards == InitBoards /\ [][NextBoards]_vars

\* resolvePortals on every position of the board, applied once and then again.
InitPortals ==
    /\ InitSnl
    /\ appScreen = "snl"
    /\ InitTtt
    /\ cwBoard = emptyBoard
    /\ cwResult = NotEvaluated
    /\ rpPos \in 1..WIN_CELL
    /\ rpOnce = NoValue
    /\ rpTwice = NoValue
    /\ InitLp

NextPortals ==
    \/ ResolveOnce
    \/ ResolveTwice

SpecPortals == InitPortals /\ [][NextPortals]_vars

\* The loop of resolvePortals on every table over LoopCells, from every start position.
InitLoop ==
    /\ InitSnl
    /\ appScreen = "snl"
    /\ InitTtt
    /\ cwBoard = emptyBoard
    /\ cwResult = NotEvaluated
    /\ InitRp
    /\ lpTable \in PortalTables
    /\ lpPos \in LoopCells
    /\ lpPrev = NoValue
    /\ lpSeen = {}
    /\ lpPc = "body"

NextLoop ==
    \/ LoopBody
    \/ LoopTest

SpecLoop == InitLoop /\ [][NextLoop]_vars

----------------------------------------------------------------------------
(* Properties of the Snake & Ladder engine *)

snlState == <<positions, turn, dice, rolling, winner>>

\* A reset of the Snake & Ladder state: the Restart button, or a remount.
ResetSnl == newGame \/ RemountSnl

\* C1: once winner is set (player index 0 or 1), a roll request changes none of
\* positions, turn, lastDice, rolling and winner.
C1_RollIgnoredAfterWin ==
    [][(winner # NoValue /\ (ClickRollDice \/ handleKeyPress)) => UNCHANGED snlState]_vars

\* C2: no roll is started between an accepted roll and its resolution, so at most one
\* dice callback is pending at any time.
C2_AtMostOneRollPending == rollTimers <= 1

\* C9: a roll that would carry the mover beyond cell 100 leaves both positions as they
\* were: the mover stays, it is not moved to 100.
C9_OvershootDiscarded ==
    [][(dice' # NoValue /\ positions[turn] + dice' > 100 /\ RollTimeout(dice'))
          => positions' = positions]_vars

\* The last roll overshot from a cell below 100, and its mover is still there.
C9_Witness ==
    /\ lastRoll.from # 0
    /\ lastRoll.from < 100
    /\ lastRoll.from + dice > 100
    /\ positions[lastRoll.who] = lastRoll.from

\* C10: a resolved roll that puts the mover on exactly 100 sets winner to the mover, and
\* from then on turn keeps the winner's index until a reset, whatever callback fires.
C10_WinnerKeepsTurn ==
    [][/\ (dice' # NoValue /\ positions'[turn] = 100 /\ RollTimeout(dice'))
            => (winner' = turn /\ turn' = turn)
       /\ winner # NoValue
            => ((turn = winner /\ turn' = turn /\ winner' = winner) \/ ResetSnl)]_vars

\* Player 2 has won and every turn-flip callback has fired: the turn is still theirs.
C10_Witness ==
    /\ winner = 1
    /\ positions[1] = 100
    /\ turn = 1
    /\ rollTimers = 0
    /\ flipTimers = 0

\* C11: a resolved roll that produced no winner is followed by a turn flip before the
\* next roll is resolved: two consecutive resolved rolls are never the same player's.
C11_RollsAlternate ==
    [][(dice' # NoValue /\ winner = NoValue /\ lastRoll.who # NoValue /\ RollTimeout(dice'))
          => lastRoll'.who # lastRoll.who]_vars

\* C15: newGame yields positions [1,1], turn 0, rolling false, no dice and no winner.
C15_NewGameResets ==
    [][newGame =>
          /\ positions' = [p \in 0..1 |-> 1]
          /\ turn' = 0
          /\ rolling' = FALSE
          /\ dice' = NoValue
          /\ winner' = NoValue]_vars

\* The state right after newGame while a callback of the game before still waits.
C15_Witness ==
    /\ positions = [p \in 0..1 |-> 1]
    /\ turn = 0
    /\ ~rolling
    /\ winner = NoValue
    /\ lastRoll = NoRoll
    /\ flipTimers > 0

\* The cells a token can rest on: those the portal table does not map elsewhere.
FixedPoint(c) == c \notin {2, 6, 20, 52, 57, 71, 43, 50, 56, 73, 84, 87, 98}

\* C18: both positions are in 1..100, and while no roll is in progress no token rests
\* on a snake head or a ladder foot.
C18_PositionsResolved ==
    /\ \A p \in 0..1 : positions[p] \in 1..100
    /\ ~rolling => \A p \in 0..1 : FixedPoint(positions[p])

\* The last roll landed on a snake head or ladder foot and its mover was carried on.
C18_Witness ==
    /\ ~rolling
    /\ lastRoll.from # 0
    /\ lastRoll.from + dice <= 100
    /\ ~FixedPoint(lastRoll.from + dice)
    /\ positions[lastRoll.who] # lastRoll.from + dice

\* C19: winner = p exactly when positions[p] = 100, at most one player is on 100, and
\* once winner is set neither winner nor positions change until a reset.
C19_WinnerIffOnLastCell ==
    [][/\ \A p \in 0..1 : (winner' = p) <=> (positions'[p] = 100)
       /\ ~(positions'[0] = 100 /\ positions'[1] = 100)
       /\ winner # NoValue
            => ((winner' = winner /\ positions' = positions) \/ ResetSnl)]_vars

\* Player 1 (index 0) has won and a roll requested after the win has been resolved.
C19_Witness ==
    /\ winner = 0
    /\ positions[0] = 100
    /\ lastRoll.from = 100
    /\ dice # NoValue

\* C21: from a reset until the next roll is accepted (no roll resolved since, none in
\* progress) the state is the initial one: positions [1,1], turn 0, no dice, no
\* winner, whatever callback of the game before fires in between.
C21_ResetStateHolds ==
    (lastRoll = NoRoll /\ ~rolling) =>
        /\ positions = initialState.positions
        /\ turn = initialState.turn
        /\ dice = initialState.dice
        /\ winner = initialState.winner

----------------------------------------------------------------------------
(* Properties of the Tic-Tac-Toe engine *)

tttState == <<board, xIsNext, status>>

\* A move is applied: a square is clicked or the opponent's callback fires.
PlayerMove == \E idx \in Cells : ClickSquare(idx)
OpponentMove == \E choice \in Cells : AiTimeout(choice)

\* A reset of the Tic-Tac-Toe state.
ResetTtt == restartGame \/ \E mode \in {"ai", "local"} : startNewGame(mode)

\* C3: once the game is won or drawn, a move (a click or the delayed opponent move)
\* changes none of cells, nextMark and outcome.
C3_TerminalAbsorbs ==
    [][(status # "" /\ (PlayerMove \/ OpponentMove)) => UNCHANGED tttState]_vars

\* C4: a cell that holds a mark keeps that mark in every step but a reset.
C4_CellsNeverRevert ==
    [][ResetTtt \/ \A i \in Cells : board[i] # null => board'[i] = board[i]]_vars

\* C5: against the random opponent, while it is O's turn and the game is in progress, a
\* click on a square changes nothing.
C5_NoMoveDuringDelay ==
    [][(gameMode = "ai" /\ ~xIsNext /\ status = "" /\ PlayerMove) => UNCHANGED tttState]_vars

\* C7: a move on a cell that already holds a mark changes none of cells, nextMark and
\* outcome.
C7_OccupiedCellNoOp ==
    [][\A idx \in Cells :
          (board[idx] # null /\ (ClickSquare(idx) \/ AiTimeout(idx)))
              => UNCHANGED tttState]_vars

\* C8: an accepted move that leaves the game in progress makes nextMark the opposite of
\* the mark it placed; an accepted move that ends the game leaves nextMark as it was.
C8_TurnAlternation ==
    [][board' # board =>
          \A idx \in Cells :
              (board'[idx] # null /\ (ClickSquare(idx) \/ AiTimeout(idx))) =>
                  /\ status' = "" => xIsNext' = (board'[idx] = "O")
                  /\ (status = "" /\ status' # "") => xIsNext' = xIsNext]_vars

\* X has won with its third mark after two marks of O: four moves flipped the turn and
\* the winning one left it with X.
C8_Witness ==
    /\ status = "X wins!"
    /\ xIsNext
    /\ Cardinality({i \in Cells : board[i] = "X"}) = 3
    /\ Cardinality({i \in Cells : board[i] = "O"}) = 2

\* The state a reset leaves: nine empty cells, X to move, in progress, no winning line.
FreshGame ==
    /\ board = emptyBoard
    /\ xIsNext
    /\ status = ""
    /\ animWinLine = <<>>

\* C14: startNewGame(mode) and restartGame yield nine empty cells, X to move, game in
\* progress and no winning line; startNewGame stores the mode, restartGame keeps it.
C14_ResetYieldsFreshGame ==
    [][/\ restartGame => (FreshGame' /\ gameMode' = gameMode)
       /\ \A mode \in {"ai", "local"} :
              startNewGame(mode) => (FreshGame' /\ gameMode' = mode)]_vars

\* A fresh game against the opponent while a callback of the game before still waits:
\* the reset came in the middle of that game.
C14_Witness ==
    /\ FreshGame
    /\ gameMode = "ai"
    /\ aiTimers # <<>>

\* C16: when the opponent's callback fires it either changes nothing, or the mode is
\* "ai", O is to move, the game is in progress and it marks a cell empty in the board
\* of that moment, leaving the other cells as they are.
C16_OpponentMoveChecksCurrent ==
    [][\A c \in Cells :
          AiTimeout(c) =>
              \/ UNCHANGED tttState
              \/ /\ gameMode = "ai"
                 /\ ~xIsNext
                 /\ status = ""
                 /\ board[c] = null
                 /\ board' = [board EXCEPT ![c] = "O"]]_vars

\* C20: the stored outcome is the outcome of the board: status names the winner that
\* calculateWinner finds (with its line), is "Draw!" exactly on a full board without a
\* uniform line, and is empty exactly when calculateWinner finds nothing.
C20_StatusAgreesWithBoard ==
    gameMode # null =>
        LET result == calculateWinner(board)
        IN  /\ status = "" <=> result = NoResult
            /\ status = "Draw!" <=> result.winner = "draw"
            /\ \A m \in Marks :
                   status = WinsText(m) <=> result.winner = m
            /\ result.winner \in Marks => animWinLine = result.line

\* C22: while the board is as a reset left it (empty, X to move: no move was requested
\* since), the opponent's callback of the game before places no mark and restores no
\* cell when it fires.
C22_ResetBoardHolds ==
    [][(FreshGame /\ OpponentMove) => (board' = emptyBoard /\ xIsNext')]_vars

----------------------------------------------------------------------------
(* Properties of calculateWinner *)

\* The eight lines of the grid, by rows, columns and diagonals.
Rows == {{3 * r, 3 * r + 1, 3 * r + 2} : r \in 0..2}
Columns == {{c, c + 3, c + 6} : c \in 0..2}
Diagonals == {{0, 4, 8}, {2, 4, 6}}
UniformLines(b) ==
    {L \in Rows \cup Columns \cup Diagonals : \E m \in Marks : \A i \in L : b[i] = m}
Full(b) == \A i \in Cells : b[i] \in Marks
Range(f) == {f[i] : i \in DOMAIN f}

\* C6: calculateWinner returns a win iff some line holds three equal marks, a draw iff
\* no line does and the board is full, and null otherwise; a win names a uniform line
\* and the mark on it.
C6_OutcomeOfEveryBoard ==
    cwResult # NotEvaluated =>
        /\ cwResult.winner \in Marks <=> UniformLines(cwBoard) # {}
        /\ cwResult.winner = "draw" <=> (UniformLines(cwBoard) = {} /\ Full(cwBoard))
        /\ cwResult = NoResult <=> (UniformLines(cwBoard) = {} /\ ~Full(cwBoard))
        /\ cwResult.winner \in Marks =>
              /\ Range(cwResult.line) \in UniformLines(cwBoard)
              /\ \A i \in Range(cwResult.line) : cwBoard[i] = cwResult.winner

\* A full board that holds a uniform line has been evaluated, to a win.
C6_Witness ==
    /\ cwResult.winner \in Marks
    /\ Full(cwBoard)

\* The order of the lines: rows, then columns, then diagonals.
FixedOrder ==
    << <<0, 1, 2>>, <<3, 4, 5>>, <<6, 7, 8>>, <<0, 3, 6>>, <<1, 4, 7>>, <<2, 5, 8>>,
       <<0, 4, 8>>, <<2, 4, 6>> >>

\* C17: on a board with more than one uniform line calculateWinner returns the first of
\* them in the order rows, columns, diagonals, and the mark on that line.
C17_FirstLineInOrderWins ==
    (cwResult # NotEvaluated /\ Cardinality(UniformLines(cwBoard)) > 1) =>
        LET first == CHOOSE k \in 1..8 :
                         /\ Range(FixedOrder[k]) \in UniformLines(cwBoard)
                         /\ \A j \in 1..(k - 1) :
                                Range(FixedOrder[j]) \notin UniformLines(cwBoard)
        IN  /\ cwResult.line = FixedOrder[first]
            /\ cwResult.winner = cwBoard[FixedOrder[first][1]]

\* A board with a uniform column and a uniform diagonal, and no uniform row, evaluated.
C17_Witness ==
    /\ cwResult.winner \in Marks
    /\ UniformLines(cwBoard) \cap Rows = {}
    /\ UniformLines(cwBoard) \cap Columns # {}
    /\ UniformLines(cwBoard) \cap Diagonals # {}

----------------------------------------------------------------------------
(* Properties of resolvePortals *)

\* C12: over the given table resolvePortals(resolvePortals(p)) = resolvePortals(p) for
\* every p in 1..100, the result is never a portal source, resolvePortals(43) = 17 and
\* resolvePortals(2) = 23.
C12_ResolveIdempotent ==
    /\ rpTwice # NoValue => rpTwice = rpOnce
    /\ rpOnce # NoValue =>
          /\ rpOnce \notin DOMAIN BOARD_PORTALS
          /\ rpPos = 43 => rpOnce = 17
          /\ rpPos = 2 => rpOnce = 23

\* The snake head 43 resolved once and then again.
C12_Witness ==
    /\ rpPos = 43
    /\ rpOnce = 17
    /\ rpTwice = 17

\* C13: resolvePortals terminates on every table, a table with a cycle included: the
\* loop never enters its body with a position it has entered it with before (from such
\* a state the same statements repeat forever).
C13_LoopNeverRepeats ==
    lpPc = "body" => lpPos \notin lpSeen

====
